---- MODULE Spec2Model ----
(***************************************************************************)
(* A model of the resume analyzer: the ResumeAnalyzer class of             *)
(* app/models/resume_analyzer.py and the two request handlers of           *)
(* app/routes/resume_analysis.py.                                          *)
(*                                                                         *)
(* Texts are TLA+ strings.  The Python string methods the code relies on   *)
(* (lower, title, strip, split, the "in" substring test, re.sub of         *)
(* whitespace runs) are operators over strings, written from what the      *)
(* methods do on the ASCII characters the model's texts are made of.       *)
(***************************************************************************)
EXTENDS Integers, Sequences, FiniteSets, TLC

(***************************************************************************)
(* Python string primitives                                                *)
(***************************************************************************)

\* s[i], 1-based
CharAt(s, i) == SubSeq(s, i, i)

UpperAlpha == "ABCDEFGHIJKLMNOPQRSTUVWXYZ"
LowerAlpha == "abcdefghijklmnopqrstuvwxyz"

UpperChars == {CharAt(UpperAlpha, i) : i \in 1..Len(UpperAlpha)}
LowerChars == {CharAt(LowerAlpha, i) : i \in 1..Len(LowerAlpha)}

\* the characters str.strip(), str.split() and the regex class \s remove
Whitespace == {" ", "\n", "\t"}

IsCased(c) == c \in UpperChars \/ c \in LowerChars

LowerChar(c) ==
    IF c \in UpperChars
    THEN CharAt(LowerAlpha, CHOOSE i \in 1..Len(UpperAlpha) : CharAt(UpperAlpha, i) = c)
    ELSE c

UpperChar(c) ==
    IF c \in LowerChars
    THEN CharAt(UpperAlpha, CHOOSE i \in 1..Len(LowerAlpha) : CharAt(LowerAlpha, i) = c)
    ELSE c

\* str.lower(): every character lower-cased (halving keeps the recursion shallow)
RECURSIVE Lower(_)
Lower(s) ==
    IF Len(s) = 0 THEN ""
    ELSE IF Len(s) = 1 THEN LowerChar(s)
    ELSE LET h == Len(s) \div 2
         IN  Lower(SubSeq(s, 1, h)) \o Lower(SubSeq(s, h + 1, Len(s)))

\* one character of str.title(): upper-case after an uncased character or at the
\* start, lower-case after a cased one
TitleCharAt(s, i) ==
    LET c == CharAt(s, i)
    IN  IF ~IsCased(c) THEN c
        ELSE IF i > 1 /\ IsCased(CharAt(s, i - 1)) THEN LowerChar(c)
        ELSE UpperChar(c)

RECURSIVE TitleRange(_, _, _)
TitleRange(s, lo, hi) ==
    IF lo > hi THEN ""
    ELSE IF lo = hi THEN TitleCharAt(s, lo)
    ELSE LET m == (lo + hi) \div 2
         IN  TitleRange(s, lo, m) \o TitleRange(s, m + 1, hi)

\* str.title()
Title(s) == TitleRange(s, 1, Len(s))

\* the Python test "k in t" for strings
IsSubstr(k, t) ==
    \E i \in 1..(Len(t) - Len(k) + 1) : SubSeq(t, i, i + Len(k) - 1) = k

\* str.startswith
StartsWith(t, k) == Len(k) <= Len(t) /\ SubSeq(t, 1, Len(k)) = k

\* str.strip()
Strip(s) ==
    LET keep == {i \in 1..Len(s) : CharAt(s, i) \notin Whitespace}
    IN  IF keep = {} THEN ""
        ELSE LET lo == CHOOSE i \in keep : \A j \in keep : i <= j
                 hi == CHOOSE i \in keep : \A j \in keep : j <= i
             IN  SubSeq(s, lo, hi)

\* len(text.split()): the number of maximal runs of non-whitespace characters
WordCount(t) ==
    Cardinality({i \in 1..Len(t) :
        /\ CharAt(t, i) \notin Whitespace
        /\ (i = 1 \/ CharAt(t, i - 1) \in Whitespace)})

\* text.split('\n')
SplitLines(t) ==
    LET nl    == {i \in 1..Len(t) : CharAt(t, i) = "\n"}
        cut   == nl \cup {0, Len(t) + 1}
        nth(k) == CHOOSE p \in cut : Cardinality({q \in cut : q < p}) = k
    IN  [k \in 1..(Cardinality(nl) + 1) |-> SubSeq(t, nth(k - 1) + 1, nth(k) - 1)]

\* str.replace(a, b) for single characters a and b
RECURSIVE ReplaceChar(_, _, _)
ReplaceChar(s, a, b) ==
    IF Len(s) = 0 THEN ""
    ELSE IF Len(s) = 1 THEN (IF s = a THEN b ELSE s)
    ELSE LET h == Len(s) \div 2
         IN  ReplaceChar(SubSeq(s, 1, h), a, b) \o ReplaceChar(SubSeq(s, h + 1, Len(s)), a, b)

\* sep.join(parts)
RECURSIVE Join(_, _)
Join(sep, parts) ==
    IF Len(parts) = 0 THEN ""
    ELSE IF Len(parts) = 1 THEN parts[1]
    ELSE parts[1] \o sep \o Join(sep, Tail(parts))

\* CollapseCharAt for text.replace("  ", " "): of every two whitespace
\* characters in a row the first becomes a space and the second goes, and a
\* whitespace character left without a partner stays as it is
CollapseCharAt_Pairs(s, i) ==
    LET c      == CharAt(s, i)
        stops  == {j \in 0..(i - 1) : j = 0 \/ CharAt(s, j) \notin Whitespace}
        before == i - 1 - (CHOOSE j \in stops : \A k \in stops : k <= j)
    IN  IF c \notin Whitespace THEN c
        ELSE IF before % 2 = 1 THEN ""
        ELSE IF i < Len(s) /\ CharAt(s, i + 1) \in Whitespace THEN " "
        ELSE c

\* one character of re.sub(r'\s+', ' ', s): a whitespace run becomes one space
CollapseCharAt(s, i) ==
    LET c == CharAt(s, i)
    IN  IF c \notin Whitespace THEN c
        ELSE IF i > 1 /\ CharAt(s, i - 1) \in Whitespace THEN ""
        ELSE " "

RECURSIVE CollapseRange(_, _, _)
CollapseRange(s, lo, hi) ==
    IF lo > hi THEN ""
    ELSE IF lo = hi THEN CollapseCharAt(s, lo)
    ELSE LET m == (lo + hi) \div 2
         IN  CollapseRange(s, lo, m) \o CollapseRange(s, m + 1, hi)

\* re.sub(r'\s+', ' ', s)
CollapseWhitespace(s) == CollapseRange(s, 1, Len(s))

\* seq[:n]
Take(seq, n) == SubSeq(seq, 1, IF Len(seq) < n THEN Len(seq) ELSE n)

\* s repeated n times (s * n)
RECURSIVE Repeat(_, _)
Repeat(s, n) ==
    IF n = 0 THEN ""
    ELSE LET h == Repeat(s, n \div 2)
         IN  IF n % 2 = 0 THEN h \o h ELSE h \o h \o s

\* the k-th smallest element of a finite set of integers
Nth(S, k) == CHOOSE p \in S : Cardinality({q \in S : q < p}) = k - 1

\* the elements of seq at the indices in S, in index order
AtIndices(seq, S) == [k \in 1..Cardinality(S) |-> seq[Nth(S, k)]]

\* an Optional value: None, or a one-element tuple holding the value
None == <<>>
Some(v) == <<v>>

(***************************************************************************)
(* ResumeAnalyzer: the reference data set by __init__                      *)
(***************************************************************************)

skill_keywords == <<
    "python", "java", "javascript", "c++", "c#", "ruby", "php", "swift", "kotlin", "go",
    "rust", "scala", "r", "matlab", "sql", "typescript", "perl", "shell", "bash", "html",
    "css", "react", "angular", "vue", "node.js", "express", "django", "flask", "spring",
    "asp.net", "laravel", "rails", "bootstrap", "jquery", "ajax", "mysql", "postgresql",
    "mongodb", "redis", "oracle", "sql server", "firebase", "cassandra", "elasticsearch",
    "dynamodb", "aws", "azure", "google cloud", "gcp", "docker", "kubernetes",
    "terraform", "jenkins", "ansible", "chef", "puppet", "pandas", "numpy",
    "scikit-learn", "tensorflow", "pytorch", "keras", "matplotlib", "seaborn", "plotly",
    "nltk", "spacy", "opencv", "hadoop", "spark", "hive", "kafka", "airflow", "git",
    "linux", "unix", "ubuntu", "centos", "agile", "scrum", "jira", "confluence", "excel",
    "tableau", "power bi", "sap", "erp"
>>

job_keywords ==
    "software-engineer" :> <<
        "programming", "coding", "software development", "debugging", "testing",
        "algorithms", "data structures", "oop", "object oriented", "design patterns",
        "version control", "git", "api", "rest", "microservices" >>
    @@ "data-scientist" :> <<
        "machine learning", "deep learning", "neural networks", "regression",
        "classification", "clustering", "nlp", "natural language processing",
        "statistical analysis", "data visualization", "pandas", "numpy", "r", "python",
        "tensorflow", "pytorch", "scikit-learn" >>
    @@ "web-developer" :> <<
        "html", "css", "javascript", "react", "angular", "vue", "node.js", "frontend",
        "backend", "responsive design", "cross-browser compatibility", "rest api", "json",
        "ajax", "bootstrap", "jquery" >>
    @@ "product-manager" :> <<
        "product strategy", "roadmap", "market research", "user stories", "agile", "scrum",
        "sprint", "product lifecycle", "ux", "ui", "stakeholder management",
        "prioritization", "metrics", "kpi" >>
    @@ "ui-ux-designer" :> <<
        "user experience", "user interface", "wireframing", "prototyping", "figma", "sketch",
        "adobe xd", "usability testing", "accessibility", "design thinking", "user research",
        "information architecture", "visual design", "typography", "color theory" >>

\* the reference data of the analyzer object as __init__ leaves it
Analyzer == [skill_keywords |-> skill_keywords, job_keywords |-> job_keywords]

(***************************************************************************)
(* ResumeAnalyzer.preprocess_text                                          *)
(*                                                                         *)
(* nlp is the spaCy collaborator as this call sees it: None when           *)
(* self.nlp is None, otherwise Some(doc), doc being the token sequence     *)
(* self.nlp(text) returns, each token a record                             *)
(* [lemma_, is_stop, is_punct, is_alpha].                                  *)
(***************************************************************************)

preprocess_text(text, nlp) ==
    IF nlp # None
    THEN LET doc    == nlp[1]
             kept   == {i \in 1..Len(doc) :
                           ~doc[i].is_stop /\ ~doc[i].is_punct /\ doc[i].is_alpha}
             tokens == [k \in 1..Cardinality(kept) |-> Lower(doc[Nth(kept, k)].lemma_)]
         IN  Join(" ", tokens)
    ELSE Strip(CollapseWhitespace(Lower(text)))

(***************************************************************************)
(* ResumeAnalyzer.extract_skills                                           *)
(*                                                                         *)
(* ner is the entity-extraction collaborator as this call sees it:         *)
(* [kind |-> "absent"] when self.ner_pipeline is None, [kind |-> "raises"] *)
(* when the call raises, [kind |-> "ok", entities |-> <<...>>] when it     *)
(* returns, each entity a record [word, entity_group].                     *)
(***************************************************************************)

\* lines 134-137: the title-cased vocabulary terms found in the processed text
KeywordMatchesOf(self, processed_text) ==
    LET hit == {i \in 1..Len(self.skill_keywords) :
                   IsSubstr(Lower(self.skill_keywords[i]), processed_text)}
    IN  [k \in 1..Cardinality(hit) |-> Title(self.skill_keywords[Nth(hit, k)])]

KeywordMatches(processed_text) == KeywordMatchesOf(Analyzer, processed_text)

\* lines 140-148: what the NER call adds to found_skills
OrgEntities(ner) ==
    IF ner.kind = "ok"
    THEN LET org == {i \in 1..Len(ner.entities) : ner.entities[i].entity_group = "ORG"}
         IN  [k \in 1..Cardinality(org) |-> ner.entities[Nth(org, k)].word]
    ELSE <<>>

\* RemoveDuplicates comparing each string with the one before it only
RemoveDuplicates_Adjacent(found_skills) ==
    AtIndices(found_skills,
              {i \in 1..Len(found_skills) :
                  i = 1 \/ found_skills[i - 1] # found_skills[i]})

\* RemoveDuplicates keyed on the trimmed, lower-cased string
RemoveDuplicates_Folded(found_skills) ==
    AtIndices(found_skills,
              {i \in 1..Len(found_skills) :
                  \A j \in 1..(i - 1) :
                      Lower(Strip(found_skills[j])) # Lower(Strip(found_skills[i]))})

\* lines 151-156: the first occurrence of every distinct string, in order
RemoveDuplicates(found_skills) ==
    AtIndices(found_skills,
              {i \in 1..Len(found_skills) :
                  \A j \in 1..(i - 1) : found_skills[j] # found_skills[i]})

\* line 131
ProcessedText(text, nlp) == Lower(preprocess_text(text, nlp))

\* lines 134-148
FoundSkills(text, nlp, ner) ==
    KeywordMatches(ProcessedText(text, nlp)) \o OrgEntities(ner)

MaxSkills == 20

extract_skills(text, nlp, ner) ==
    Take(RemoveDuplicates(FoundSkills(text, nlp, ner)), MaxSkills)

(***************************************************************************)
(* ResumeAnalyzer.extract_experiences                                      *)
(***************************************************************************)

action_verbs == <<
    "managed", "developed", "created", "implemented", "designed", "optimized",
    "led", "collaborated", "analyzed", "improved", "increased", "reduced",
    "streamlined", "automated", "mentored", "trained", "coordinated" >>

MinLineLength == 10
MaxExperiences == 10

\* any(verb in s for verb in verbs)
ContainsAny(verbs, s) == \E i \in 1..Len(verbs) : IsSubstr(verbs[i], s)

\* line 182
LineClean(line) == Lower(Strip(line))

\* IsExperienceLine accepting a trimmed length of 10
IsExperienceLine_AtLeast10(line) ==
    /\ Len(LineClean(line)) >= MinLineLength
    /\ ContainsAny(action_verbs, LineClean(line))

\* line 184
IsExperienceLine(line) ==
    /\ Len(LineClean(line)) > MinLineLength
    /\ ContainsAny(action_verbs, LineClean(line))

\* lines 186-188
FormatLine(line) ==
    LET formatted_line == Strip(line)
    IN  IF formatted_line = "" THEN ""
        ELSE UpperChar(CharAt(formatted_line, 1))
                 \o SubSeq(formatted_line, 2, Len(formatted_line))

extract_experiences(text) ==
    LET lines == SplitLines(text)
        hit   == {i \in 1..Len(lines) : IsExperienceLine(lines[i])}
        experiences == [k \in 1..Cardinality(hit) |-> FormatLine(lines[Nth(hit, k)])]
    IN  Take(experiences, MaxExperiences)

(***************************************************************************)
(* ResumeAnalyzer.calculate_score                                          *)
(***************************************************************************)

Min(a, b) == IF a < b THEN a ELSE b
Max(a, b) == IF a > b THEN a ELSE b

\* LengthPoints with the second band opening at 100 words instead of above 100
LengthPoints_AtLeast100(text) ==
    LET word_count == WordCount(text)
    IN  IF 200 <= word_count /\ word_count <= 800 THEN 30
        ELSE IF word_count >= 100 THEN 20
        ELSE 10

\* lines 209-215
LengthPoints(text) ==
    LET word_count == WordCount(text)
    IN  IF 200 <= word_count /\ word_count <= 800 THEN 30
        ELSE IF word_count > 100 THEN 20
        ELSE 10

\* lines 218-223
SkillPoints(skills) ==
    IF Len(skills) >= 10 THEN 25
    ELSE IF Len(skills) >= 5 THEN 15
    ELSE 5

\* lines 226-231
ExperiencePoints(experiences) ==
    IF Len(experiences) >= 5 THEN 25
    ELSE IF Len(experiences) >= 2 THEN 15
    ELSE 5

\* lines 234-235
KeywordCountOf(self, text) ==
    LET lowered == Lower(text)
    IN  Cardinality({i \in 1..Len(self.skill_keywords) :
                        IsSubstr(Lower(self.skill_keywords[i]), lowered)})

KeywordCount(text) == KeywordCountOf(Analyzer, text)

\* lines 236-241
KeywordPointsOf(self, text) ==
    LET keyword_count == KeywordCountOf(self, text)
    IN  IF keyword_count >= 15 THEN 20
        ELSE IF keyword_count >= 8 THEN 10
        ELSE 5

KeywordPoints(text) == KeywordPointsOf(Analyzer, text)

\* calculate_score with "if" in place of every "elif" (each band that matches
\* adds its points) and the final clamp left out
calculate_score_Cumulative(text, skills, experiences) ==
    LET word_count    == WordCount(text)
        keyword_count == KeywordCount(text)
        Points(cond, n) == IF cond THEN n ELSE 0
    IN  Points(200 <= word_count /\ word_count <= 800, 30) + Points(word_count > 100, 20)
            + Points(Len(skills) >= 10, 25) + Points(Len(skills) >= 5, 15)
            + Points(Len(experiences) >= 5, 25) + Points(Len(experiences) >= 2, 15)
            + Points(keyword_count >= 15, 20) + Points(keyword_count >= 8, 10)

\* lines 195-244, self being the analyzer object the method is called on
calculate_scoreOf(self, text, skills, experiences) ==
    LET score == LengthPoints(text) + SkillPoints(skills)
                     + ExperiencePoints(experiences) + KeywordPointsOf(self, text)
    IN  Min(Max(score, 0), 100)

calculate_score(text, skills, experiences) ==
    calculate_scoreOf(Analyzer, text, skills, experiences)

(***************************************************************************)
(* ResumeAnalyzer.generate_feedback                                        *)
(***************************************************************************)

FB_EXCELLENT == "Excellent resume! Well-structured and comprehensive."
FB_GOOD      == "Good resume with some room for improvement."
FB_FAIR      == "Fair resume, but needs significant improvements."
FB_NEEDS     == "Needs substantial improvements to be competitive."
FB_ADD       == "Consider adding more content to showcase your experience."
FB_SHORTEN   == "Consider shortening your resume to make it more concise."
FB_SKILLS    == "Try to highlight more technical skills relevant to your field."
FB_EXAMPLES  == "Include more specific examples of your achievements with metrics."
FB_SUMMARY   == "Consider adding a professional summary or objective."
FB_CONTACT   == "Make sure your contact information is clearly visible."

\* feedback_parts.append(part) when cond holds
AppendIf(parts, cond, part) == IF cond THEN Append(parts, part) ELSE parts

\* generate_feedback asking for more content up to and including 150 words
generate_feedback_AtMost150(text, skills, experiences, score) ==
    LET word_count == WordCount(text)
        p1 == << IF score >= 80 THEN FB_EXCELLENT
                 ELSE IF score >= 60 THEN FB_GOOD
                 ELSE IF score >= 40 THEN FB_FAIR
                 ELSE FB_NEEDS >>
        p2 == IF word_count <= 150 THEN Append(p1, FB_ADD)
              ELSE IF word_count > 1000 THEN Append(p1, FB_SHORTEN)
              ELSE p1
        p3 == AppendIf(p2, Len(skills) < 5, FB_SKILLS)
        p4 == AppendIf(p3, Len(experiences) < 3, FB_EXAMPLES)
        p5 == AppendIf(p4, /\ ~IsSubstr("summary", Lower(text))
                           /\ ~IsSubstr("objective", Lower(text)), FB_SUMMARY)
        p6 == AppendIf(p5, /\ ~IsSubstr("@", text)
                           /\ ~IsSubstr("email", Lower(text)), FB_CONTACT)
    IN  Join(" ", p6)

generate_feedback(text, skills, experiences, score) ==
    LET word_count == WordCount(text)
        p1 == << IF score >= 80 THEN FB_EXCELLENT
                 ELSE IF score >= 60 THEN FB_GOOD
                 ELSE IF score >= 40 THEN FB_FAIR
                 ELSE FB_NEEDS >>
        p2 == IF word_count < 150 THEN Append(p1, FB_ADD)
              ELSE IF word_count > 1000 THEN Append(p1, FB_SHORTEN)
              ELSE p1
        p3 == AppendIf(p2, Len(skills) < 5, FB_SKILLS)
        p4 == AppendIf(p3, Len(experiences) < 3, FB_EXAMPLES)
        p5 == AppendIf(p4, /\ ~IsSubstr("summary", Lower(text))
                           /\ ~IsSubstr("objective", Lower(text)), FB_SUMMARY)
        p6 == AppendIf(p5, /\ ~IsSubstr("@", text)
                           /\ ~IsSubstr("email", Lower(text)), FB_CONTACT)
    IN  Join(" ", p6)

(***************************************************************************)
(* ResumeAnalyzer.generate_recommendations                                 *)
(***************************************************************************)

REC_SKILLS  == "Add more technical skills and certifications relevant to your field."
REC_ACHIEVE == "Include more quantifiable achievements with specific metrics (e.g., 'Increased sales by 25%')."
REC_VERBS   == "Use stronger action verbs to describe your accomplishments (e.g., 'Led' instead of 'Helped')."
REC_METRICS == "Include more quantifiable results to demonstrate impact (e.g., 'Reduced processing time by 40%')."
REC_SUMMARY == "Add a professional summary or objective at the beginning of your resume."
REC_TYPOS   == "Review your resume for typos and grammatical errors."
REC_FORMAT  == "Ensure consistent formatting throughout the document."
REC_TAILOR  == "Tailor your resume for each job application."

REC_KEYWORDS_PREFIX == "Consider adding these keywords relevant to "

weak_action_verbs   == << "helped", "assisted", "worked on", "was responsible for" >>
strong_action_verbs == << "managed", "developed", "created", "implemented", "optimized", "led" >>
metrics_keywords    == << "%", "increased", "decreased", "improved", "reduced", "grew", "$", "saved" >>

\* sum(1 for exp in experiences for verb in verbs if verb in exp.lower())
CountHits(experiences, verbs) ==
    Cardinality({p \in (1..Len(experiences)) \X (1..Len(verbs)) :
                    IsSubstr(verbs[p[2]], Lower(experiences[p[1]]))})

\* lines 339-342
MissingKeywordsOf(self, text, job_position) ==
    LET profile == self.job_keywords[job_position]
        lowered == Lower(text)
        absent  == {i \in 1..Len(profile) : ~IsSubstr(Lower(profile[i]), lowered)}
    IN  [k \in 1..Cardinality(absent) |-> Title(profile[Nth(absent, k)])]

MissingKeywords(text, job_position) == MissingKeywordsOf(Analyzer, text, job_position)

\* KeywordGapSentence listing every missing keyword, the [:5] left out
KeywordGapSentence_All(job_position, missing_keywords) ==
    REC_KEYWORDS_PREFIX \o Title(ReplaceChar(job_position, "-", " "))
        \o ": " \o Join(", ", missing_keywords)

\* line 345
KeywordGapSentence(job_position, missing_keywords) ==
    REC_KEYWORDS_PREFIX \o Title(ReplaceChar(job_position, "-", " "))
        \o ": " \o Join(", ", Take(missing_keywords, 5))

\* the rule-based recommendations, lines 308-349, before the fallback
RuleRecommendationsOf(self, text, skills, experiences, job_position) ==
    LET r1 == AppendIf(<<>>, Len(skills) < 8, REC_SKILLS)
        r2 == AppendIf(r1, Len(experiences) < 4, REC_ACHIEVE)
        weak_count    == CountHits(experiences, weak_action_verbs)
        strong_count  == CountHits(experiences, strong_action_verbs)
        r3 == AppendIf(r2, weak_count > strong_count, REC_VERBS)
        metrics_count == CountHits(experiences, metrics_keywords)
        r4 == AppendIf(r3, 2 * metrics_count < Len(experiences), REC_METRICS)
        r5 == IF /\ job_position # None
                 /\ job_position[1] # ""
                 /\ job_position[1] \in DOMAIN self.job_keywords
              THEN LET missing_keywords == MissingKeywordsOf(self, text, job_position[1])
                   IN  AppendIf(r4, missing_keywords # <<>>,
                                KeywordGapSentence(job_position[1], missing_keywords))
              ELSE r4
        r6 == AppendIf(r5, /\ ~IsSubstr("objective", Lower(text))
                           /\ ~IsSubstr("summary", Lower(text)), REC_SUMMARY)
    IN  r6

RuleRecommendations(text, skills, experiences, job_position) ==
    RuleRecommendationsOf(Analyzer, text, skills, experiences, job_position)

\* generate_recommendations with the fallback tips appended whenever fewer than
\* three recommendations were generated
generate_recommendations_PadToThree(text, skills, experiences, job_position) ==
    LET recommendations == RuleRecommendations(text, skills, experiences, job_position)
    IN  IF Len(recommendations) < 3
        THEN recommendations \o << REC_TYPOS, REC_FORMAT, REC_TAILOR >>
        ELSE recommendations

\* generate_recommendations looking the tag up in job_keywords lower-cased
generate_recommendations_FoldedTag(text, skills, experiences, job_position) ==
    LET tag == IF job_position = None THEN None ELSE Some(Lower(job_position[1]))
        recommendations == RuleRecommendations(text, skills, experiences, tag)
    IN  IF recommendations = <<>>
        THEN << REC_TYPOS, REC_FORMAT, REC_TAILOR >>
        ELSE recommendations

\* job_position is None or Some(tag)
generate_recommendations(text, skills, experiences, job_position) ==
    LET recommendations == RuleRecommendations(text, skills, experiences, job_position)
    IN  IF recommendations = <<>>
        THEN << REC_TYPOS, REC_FORMAT, REC_TAILOR >>
        ELSE recommendations

\* generate_recommendations called on self
generate_recommendationsOf(self, text, skills, experiences, job_position) ==
    LET recommendations == RuleRecommendationsOf(self, text, skills, experiences, job_position)
    IN  IF recommendations = <<>>
        THEN << REC_TYPOS, REC_FORMAT, REC_TAILOR >>
        ELSE recommendations

(***************************************************************************)
(* The spaCy collaborator, as far as preprocess_text reads it: a document  *)
(* is the sequence of the text's whitespace-separated words, each with the *)
(* three flags preprocess_text tests and its lemma.                        *)
(***************************************************************************)

\* text.split(): the maximal runs of non-whitespace characters, in order
Split(t) ==
    LET starts == {i \in 1..Len(t) :
                      /\ CharAt(t, i) \notin Whitespace
                      /\ (i = 1 \/ CharAt(t, i - 1) \in Whitespace)}
        ends   == {i \in 1..Len(t) :
                      /\ CharAt(t, i) \notin Whitespace
                      /\ (i = Len(t) \/ CharAt(t, i + 1) \in Whitespace)}
    IN  [k \in 1..Cardinality(starts) |-> SubSeq(t, Nth(starts, k), Nth(ends, k))]

StopWords == {"a", "an", "and", "the", "of", "in", "i", "have"}
Punctuation == {".", ",", ":", ";", "!", "?"}

Token(word) ==
    [ lemma_   |-> word,
      is_stop  |-> Lower(word) \in StopWords,
      is_punct |-> \A i \in 1..Len(word) : CharAt(word, i) \in Punctuation,
      is_alpha |-> \A i \in 1..Len(word) : IsCased(CharAt(word, i)) ]

\* self.nlp(text)
NlpDoc(text) == LET words == Split(text) IN [k \in 1..Len(words) |-> Token(words[k])]

\* self.nlp as one call sees it: not loaded, or loaded and returning the document
NlpChoices(text) == {None, Some(NlpDoc(text))}

(***************************************************************************)
(* The NER collaborator: the entity lists self.ner_pipeline(text) may      *)
(* return, besides being absent and raising.                               *)
(***************************************************************************)

MaxEntities == 2

Entities == {
    [word |-> "Google", entity_group |-> "ORG"],
    [word |-> "Python", entity_group |-> "ORG"],
    [word |-> "python", entity_group |-> "ORG"],
    [word |-> " Python", entity_group |-> "ORG"],
    [word |-> "Alice",  entity_group |-> "PER"] }

EntityLists == UNION {[1..n -> Entities] : n \in 0..MaxEntities}

NerChoices ==
    {[kind |-> "absent"], [kind |-> "raises"]}
        \cup {[kind |-> "ok", entities |-> es] : es \in EntityLists}

(***************************************************************************)
(* State                                                                   *)
(***************************************************************************)

VARIABLES
    pc,               \* where the request, or the call under test, stands
    endpoint,         \* "text" or "file": the route that received the request
    upload,           \* the uploaded file: [content_type, content], or None
    text,             \* the resume text
    job_position,     \* None or Some(tag)
    nlp,              \* the spaCy collaborator as this call sees it
    ner,              \* the NER collaborator as this call sees it
    skills,           \* extract_skills' result
    experiences,      \* extract_experiences' result
    score,            \* calculate_score's result
    feedback,         \* generate_feedback's result
    recommendations,  \* generate_recommendations' result
    status,           \* the HTTP status of the response, 0 while there is none
    analyzer,         \* the module-level ResumeAnalyzer every handler calls
    calls,            \* the frames of the analyzer's method calls in progress
    processed         \* the results of successive preprocess_text applications

vars == << pc, endpoint, upload, text, job_position, nlp, ner, skills, experiences,
           score, feedback, recommendations, status, analyzer, calls, processed >>

\* the values every variable has before a request or a call sets it
Blank ==
    /\ endpoint = ""
    /\ upload = None
    /\ text = ""
    /\ job_position = None
    /\ nlp = None
    /\ ner = [kind |-> "absent"]
    /\ skills = <<>>
    /\ experiences = <<>>
    /\ score = 0
    /\ feedback = ""
    /\ recommendations = <<>>
    /\ status = 0
    /\ analyzer = Analyzer
    /\ calls = <<>>
    /\ processed = <<>>

(***************************************************************************)
(* app/routes/resume_analysis.py: exceptions and the file reader           *)
(***************************************************************************)

\* fastapi.HTTPException(status_code=...), a subclass of Exception
HTTPException(status_code) == [type |-> "HTTPException", status_code |-> status_code]

\* any other exception: a decoding error, a PDF or Word parsing error
OtherException == [type |-> "Exception", status_code |-> 0]

Return(value) == [raised |-> FALSE, value |-> value]
Raise(exc)    == [raised |-> TRUE, exc |-> exc]

SupportedTypes == {
    "text/plain", "application/pdf", "application/msword",
    "application/vnd.openxmlformats-officedocument.wordprocessingml.document" }

\* file is [content_type, content]; content is Some(text) when the decoder or the
\* PDF or Word library reads the file, None when it raises.  The function's own
\* "except Exception" turns whatever the body raises into HTTPException(500).
extract_text_from_file(file) ==
    LET body == IF file.content_type \in SupportedTypes
                THEN IF file.content # None
                     THEN Return(file.content[1])
                     ELSE Raise(OtherException)
                ELSE Raise(HTTPException(400))
    IN  IF body.raised THEN Raise(HTTPException(500)) ELSE body

\* analyze_resume_text, lines 86-87: "except Exception" catches whatever the body
\* raised, an HTTPException included, and raises HTTPException(500)
TextHandlerExcept(exc) == HTTPException(500)

\* analyze_resume_file, lines 118-122: an HTTPException is re-raised as it is,
\* anything else becomes HTTPException(500)
FileHandlerExcept(exc) ==
    IF exc.type = "HTTPException" THEN exc ELSE HTTPException(500)

\* the status of the response when the handler of endpoint ep raised exc in its body
ResponseStatus(ep, exc) ==
    IF ep = "text" THEN TextHandlerExcept(exc).status_code
    ELSE FileHandlerExcept(exc).status_code

(***************************************************************************)
(* Spec: the service.  One request at a time is received on one of the two *)
(* routes, validated, analyzed step by step and answered.                  *)
(***************************************************************************)

\* no position, the empty tag, two known tags and two unknown ones
JobChoices == {
    None, Some(""), Some("data-scientist"), Some("ui-ux-designer"),
    Some("unknown-tag"), Some("Data-Scientist") }

RequestTexts == {
    "",
    " \n\t",
    "Python developer\nManaged a team of 5 engineers\nIncreased sales by 40%",
    "Summary: me@example.com\nLed the machine learning team" }

UploadTypes == {"text/plain", "application/pdf", "image/png"}

Uploads ==
    {[content_type |-> ct, content |-> c] :
        ct \in UploadTypes, c \in {None} \cup {Some(t) : t \in RequestTexts}}

\* the entity lists the service's NER collaborator returns
ServiceNerChoices == {
    [kind |-> "absent"],
    [kind |-> "raises"],
    [kind |-> "ok", entities |-> << [word |-> "python", entity_group |-> "ORG"],
                                    [word |-> "Alice", entity_group |-> "PER"] >>] }

Init ==
    /\ pc = "idle"
    /\ Blank

\* POST /analyze/text arrives
ReceiveTextRequest ==
    /\ pc = "idle"
    /\ \E t \in RequestTexts, jp \in JobChoices :
           /\ text' = t
           /\ job_position' = jp
    /\ endpoint' = "text"
    /\ pc' = "validate"
    /\ UNCHANGED << upload, nlp, ner, skills, experiences, score, feedback,
                    recommendations, status,
                    analyzer, calls, processed >>

\* POST /analyze/file arrives
ReceiveFileRequest ==
    /\ pc = "idle"
    /\ \E u \in Uploads, jp \in JobChoices :
           /\ upload' = Some(u)
           /\ job_position' = jp
    /\ endpoint' = "file"
    /\ pc' = "extract_text"
    /\ UNCHANGED << text, nlp, ner, skills, experiences, score, feedback,
                    recommendations, status,
                    analyzer, calls, processed >>

\* analyze_resume_file, line 110
ExtractText ==
    /\ pc = "extract_text"
    /\ LET r == extract_text_from_file(upload[1])
       IN  IF r.raised
           THEN /\ status' = ResponseStatus(endpoint, r.exc)
                /\ pc' = "done"
                /\ text' = text
           ELSE /\ text' = r.value
                /\ pc' = "validate"
                /\ status' = status
    /\ UNCHANGED << endpoint, upload, job_position, nlp, ner, skills, experiences,
                    score, feedback, recommendations,
                    analyzer, calls, processed >>

\* analyze_resume_text, lines 80-81; analyze_resume_file, lines 112-113
Validate ==
    /\ pc = "validate"
    /\ IF Strip(text) = ""
       THEN /\ status' = ResponseStatus(endpoint, HTTPException(400))
            /\ pc' = "done"
       ELSE /\ pc' = "extract_skills"
            /\ status' = status
    /\ UNCHANGED << endpoint, upload, text, job_position, nlp, ner, skills,
                    experiences, score, feedback, recommendations,
                    analyzer, calls, processed >>

\* analyze, line 371
ExtractSkills ==
    /\ pc = "extract_skills"
    /\ \E n \in NlpChoices(text), e \in ServiceNerChoices :
           /\ nlp' = n
           /\ ner' = e
           /\ skills' = extract_skills(text, n, e)
    /\ pc' = "extract_experiences"
    /\ UNCHANGED << endpoint, upload, text, job_position, experiences, score,
                    feedback, recommendations, status,
                    analyzer, calls, processed >>

\* analyze, line 372
ExtractExperiences ==
    /\ pc = "extract_experiences"
    /\ experiences' = extract_experiences(text)
    /\ pc' = "calculate_score"
    /\ UNCHANGED << endpoint, upload, text, job_position, nlp, ner, skills, score,
                    feedback, recommendations, status,
                    analyzer, calls, processed >>

\* analyze, line 375
CalculateScore ==
    /\ pc = "calculate_score"
    /\ score' = calculate_score(text, skills, experiences)
    /\ pc' = "generate_feedback"
    /\ UNCHANGED << endpoint, upload, text, job_position, nlp, ner, skills,
                    experiences, feedback, recommendations, status,
                    analyzer, calls, processed >>

\* analyze, line 378
GenerateFeedback ==
    /\ pc = "generate_feedback"
    /\ feedback' = generate_feedback(text, skills, experiences, score)
    /\ pc' = "generate_recommendations"
    /\ UNCHANGED << endpoint, upload, text, job_position, nlp, ner, skills,
                    experiences, score, recommendations, status,
                    analyzer, calls, processed >>

\* analyze, line 379
GenerateRecommendations ==
    /\ pc = "generate_recommendations"
    /\ recommendations' = generate_recommendations(text, skills, experiences, job_position)
    /\ pc' = "respond"
    /\ UNCHANGED << endpoint, upload, text, job_position, nlp, ner, skills,
                    experiences, score, feedback, status,
                    analyzer, calls, processed >>

\* analyze returns its result and the handler returns it: lines 382-388, 85, 117
Respond ==
    /\ pc = "respond"
    /\ status' = 200
    /\ pc' = "done"
    /\ UNCHANGED << endpoint, upload, text, job_position, nlp, ner, skills,
                    experiences, score, feedback, recommendations,
                    analyzer, calls, processed >>

\* the response is sent; nothing of the request is kept
Finish ==
    /\ pc = "done"
    /\ pc' = "idle"
    /\ endpoint' = ""
    /\ upload' = None
    /\ text' = ""
    /\ job_position' = None
    /\ nlp' = None
    /\ ner' = [kind |-> "absent"]
    /\ skills' = <<>>
    /\ experiences' = <<>>
    /\ score' = 0
    /\ feedback' = ""
    /\ recommendations' = <<>>
    /\ status' = 0
    /\ UNCHANGED << analyzer, calls, processed >>

Next ==
    \/ ReceiveTextRequest
    \/ ReceiveFileRequest
    \/ ExtractText
    \/ Validate
    \/ ExtractSkills
    \/ ExtractExperiences
    \/ CalculateScore
    \/ GenerateFeedback
    \/ GenerateRecommendations
    \/ Respond
    \/ Finish

Spec == Init /\ [][Next]_vars

(***************************************************************************)
(* SpecSkills: extract_skills applied to every text of SkillTexts under    *)
(* every collaborator outcome.                                             *)
(***************************************************************************)

SkillTexts == {
    "",
    "  \n ",
    "Python and JAVA developer",
    "reaction time",
    "Sql  Server,\tnode.js",
    "c++ c# go rust sql perl bash html css vue php aws gcp git sap erp jira hive ruby swift kotlin scala",
    "Python\nc++ c# go rust sql perl bash html css vue php aws gcp git sap erp jira hive ruby swift kotlin" }

InitSkills ==
    /\ pc = "extract_skills"
    /\ text \in SkillTexts
    /\ nlp \in NlpChoices(text)
    /\ ner \in NerChoices
    /\ endpoint = ""
    /\ upload = None
    /\ job_position = None
    /\ skills = <<>>
    /\ experiences = <<>>
    /\ score = 0
    /\ feedback = ""
    /\ recommendations = <<>>
    /\ status = 0
    /\ analyzer = Analyzer
    /\ calls = <<>>
    /\ processed = <<>>

CallExtractSkills ==
    /\ pc = "extract_skills"
    /\ skills' = extract_skills(text, nlp, ner)
    /\ pc' = "returned"
    /\ UNCHANGED << endpoint, upload, text, job_position, nlp, ner, experiences,
                    score, feedback, recommendations, status,
                    analyzer, calls, processed >>

NextSkills == CallExtractSkills

SpecSkills == InitSkills /\ [][NextSkills]_vars

(***************************************************************************)
(* SpecExperiences: extract_experiences applied to every text of ExpTexts: *)
(* a head, one line repeated 0..MaxRepeat times, and a tail.               *)
(***************************************************************************)

MaxRepeat == 11

ExpHeads == {"", "Summary\n\n"}

ExpLines == {
    "Managed a team of 5 engineers",
    "  i have developed Python and Java apps  ",
    "Led a team",
    "Responsible for weekly reports",
    "\tOPTIMIZED and Led 3 squads, reduced cost by 40%" }

ExpTails == {"", "  coordinated events", "Created it"}

ExpTexts ==
    {h \o Repeat(l \o "\n", n) \o t :
        h \in ExpHeads, l \in ExpLines, n \in 0..MaxRepeat, t \in ExpTails}

InitExperiences ==
    /\ pc = "extract_experiences"
    /\ text \in ExpTexts
    /\ endpoint = ""
    /\ upload = None
    /\ job_position = None
    /\ nlp = None
    /\ ner = [kind |-> "absent"]
    /\ skills = <<>>
    /\ experiences = <<>>
    /\ score = 0
    /\ feedback = ""
    /\ recommendations = <<>>
    /\ status = 0
    /\ analyzer = Analyzer
    /\ calls = <<>>
    /\ processed = <<>>

CallExtractExperiences ==
    /\ pc = "extract_experiences"
    /\ experiences' = extract_experiences(text)
    /\ pc' = "returned"
    /\ UNCHANGED << endpoint, upload, text, job_position, nlp, ner, skills,
                    score, feedback, recommendations, status,
                    analyzer, calls, processed >>

NextExperiences == CallExtractExperiences

SpecExperiences == InitExperiences /\ [][NextExperiences]_vars

(***************************************************************************)
(* SpecScore: calculate_score applied to every combination of a text of    *)
(* ScoreTexts, a skills list and an experiences list.  A text is n words:  *)
(* n - 1 filler words and one word that holds the vocabulary terms.        *)
(***************************************************************************)

WordCounts == {1, 100, 101, 199, 200, 800, 801}

\* one word each, holding 7, 8, 14 and 15 vocabulary terms
KeywordChunks == {
    "PHP,Vue,AWS,GCP,SAP,CSS,Git",
    "PHP,Vue,AWS,GCP,SAP,CSS,Git,SQL",
    "PHP,Vue,AWS,GCP,SAP,CSS,Git,SQL,C++,c#,HTML,nltk,bash,unix",
    "PHP,Vue,AWS,GCP,SAP,CSS,Git,SQL,C++,c#,HTML,nltk,bash,unix,hive" }

ScoreTexts ==
    {""} \cup {Repeat("w ", n - 1) \o k : n \in WordCounts, k \in KeywordChunks}

SkillCounts == {0, 4, 5, 9, 10}
ExperienceCounts == {0, 1, 2, 4, 5}

SkillLists == {[i \in 1..n |-> Title(skill_keywords[i])] : n \in SkillCounts}
ExperienceLists == {[i \in 1..n |-> "Managed a team of 5 engineers"] : n \in ExperienceCounts}

InitScore ==
    /\ pc = "calculate_score"
    /\ text \in ScoreTexts
    /\ skills \in SkillLists
    /\ experiences \in ExperienceLists
    /\ endpoint = ""
    /\ upload = None
    /\ job_position = None
    /\ nlp = None
    /\ ner = [kind |-> "absent"]
    /\ score = 0
    /\ feedback = ""
    /\ recommendations = <<>>
    /\ status = 0
    /\ analyzer = Analyzer
    /\ calls = <<>>
    /\ processed = <<>>

CallCalculateScore ==
    /\ pc = "calculate_score"
    /\ score' = calculate_score(text, skills, experiences)
    /\ pc' = "returned"
    /\ UNCHANGED << endpoint, upload, text, job_position, nlp, ner, skills,
                    experiences, feedback, recommendations, status,
                    analyzer, calls, processed >>

NextScore == CallCalculateScore

SpecScore == InitScore /\ [][NextScore]_vars

\* C1: for every text, skills list and experiences list, calculate_score returns
\* an integer between 0 and 100 inclusive.
C1_ScoreInRange ==
    pc = "returned" => score \in 0..100

\* C1 witness: a call has returned the highest score, every factor in its top band
C1_Witness ==
    /\ pc = "returned"
    /\ score = 100
    /\ WordCount(text) = 800
    /\ Len(skills) = 10
    /\ Len(experiences) = 5

\* the number of vocabulary terms that are case-insensitive substrings of t
C2_Density(t) ==
    LET folded == Lower(t)
    IN  Cardinality({k \in 1..Len(skill_keywords) : IsSubstr(Lower(skill_keywords[k]), folded)})

C2_LengthBand(n) == IF 200 <= n /\ n <= 800 THEN 30 ELSE IF n > 100 THEN 20 ELSE 10
C2_SkillBand(n) == IF n >= 10 THEN 25 ELSE IF n >= 5 THEN 15 ELSE 5
C2_ExperienceBand(n) == IF n >= 5 THEN 25 ELSE IF n >= 2 THEN 15 ELSE 5
C2_DensityBand(n) == IF n >= 15 THEN 20 ELSE IF n >= 8 THEN 10 ELSE 5

\* C2: the score is the sum of the four band values, each chosen first-match-wins
\* from the word count, the skill count, the experience count and the keyword
\* density, and depends on nothing else.
C2_ScoreIsSumOfBands ==
    pc = "returned" =>
        score = C2_LengthBand(WordCount(text)) + C2_SkillBand(Len(skills))
                    + C2_ExperienceBand(Len(experiences)) + C2_DensityBand(C2_Density(text))

\* C2 witness: exactly 100 words score 10 for length, beside three top bands
C2_Witness ==
    /\ pc = "returned"
    /\ WordCount(text) = 100
    /\ Len(skills) = 10
    /\ Len(experiences) = 5
    /\ C2_Density(text) = 15
    /\ score = 80

(***************************************************************************)
(* SpecRecommendations: generate_recommendations applied to every          *)
(* combination of a text of RecTexts, a skills list, an experiences list   *)
(* and a job position.  An experiences list is up to MaxPerKind lines of   *)
(* each of three kinds.                                                    *)
(***************************************************************************)

MaxPerKind == 2

RecTexts == {
    "",
    "Professional Summary: engineer",
    "OBJECTIVE: a job in machine learning and regression",
    "summary Machine Learning, deep learning, neural networks, regression, classification, clustering, NLP, natural language processing, statistical analysis, data visualization, pandas, numpy, python, tensorflow, pytorch, scikit-learn",
    "machine learning, deep learning, neural networks, regression, classification, clustering, nlp, natural language processing, statistical analysis, data visualization, python, tensorflow, scikit-learn" }

RecSkillCounts == {0, 7, 8}

RecSkillLists == {[i \in 1..n |-> Title(skill_keywords[i])] : n \in RecSkillCounts}

\* a strong verb and two metric markers; two weak verbs and one strong; neither
RecLineStrong == "Managed a team and increased sales by 40%"
RecLineWeak   == "Helped and assisted the team that was led by others"
RecLinePlain  == "Designed the billing service"

RecExperienceLists ==
    {[i \in 1..a |-> RecLineStrong] \o [i \in 1..b |-> RecLineWeak] \o [i \in 1..c |-> RecLinePlain] :
        a \in 0..MaxPerKind, b \in 0..MaxPerKind, c \in 0..MaxPerKind}

InitRecommendations ==
    /\ pc = "generate_recommendations"
    /\ text \in RecTexts
    /\ skills \in RecSkillLists
    /\ experiences \in RecExperienceLists
    /\ job_position \in JobChoices
    /\ endpoint = ""
    /\ upload = None
    /\ nlp = None
    /\ ner = [kind |-> "absent"]
    /\ score = 0
    /\ feedback = ""
    /\ recommendations = <<>>
    /\ status = 0
    /\ analyzer = Analyzer
    /\ calls = <<>>
    /\ processed = <<>>

CallGenerateRecommendations ==
    /\ pc = "generate_recommendations"
    /\ recommendations' = generate_recommendations(text, skills, experiences, job_position)
    /\ pc' = "returned"
    /\ UNCHANGED << endpoint, upload, text, job_position, nlp, ner, skills,
                    experiences, score, feedback, status,
                    analyzer, calls, processed >>

NextRecommendations == CallGenerateRecommendations

SpecRecommendations == InitRecommendations /\ [][NextRecommendations]_vars

\* the three fixed fallback tips, in their order
C5_Fallback == << REC_TYPOS, REC_FORMAT, REC_TAILOR >>

\* a recommendation produced by one of the rules
C5_IsRuleTip(r) ==
    \/ r \in {REC_SKILLS, REC_ACHIEVE, REC_VERBS, REC_METRICS, REC_SUMMARY}
    \/ StartsWith(r, REC_KEYWORDS_PREFIX)

\* some rule of generate_recommendations triggers on the call's arguments
C5_SomeRuleTriggers ==
    \/ Len(skills) < 8
    \/ Len(experiences) < 4
    \/ CountHits(experiences, weak_action_verbs) > CountHits(experiences, strong_action_verbs)
    \/ 2 * CountHits(experiences, metrics_keywords) < Len(experiences)
    \/ /\ job_position # None
       /\ job_position[1] \in DOMAIN job_keywords
       /\ \E k \in 1..Len(job_keywords[job_position[1]]) :
              ~IsSubstr(Lower(job_keywords[job_position[1]][k]), Lower(text))
    \/ ~IsSubstr("objective", Lower(text)) /\ ~IsSubstr("summary", Lower(text))

\* C5: generate_recommendations never returns an empty list; the three fallback
\* tips are the whole list, in order, exactly when no rule triggered; and no
\* fallback tip shares a list with a rule-based tip.
C5_FallbackAllOrNothing ==
    pc = "returned" =>
        /\ recommendations # <<>>
        /\ (recommendations = C5_Fallback) <=> ~C5_SomeRuleTriggers
        /\ (\E i \in 1..Len(recommendations) : recommendations[i] \in {REC_TYPOS, REC_FORMAT, REC_TAILOR})
               => \A i \in 1..Len(recommendations) : ~C5_IsRuleTip(recommendations[i])

\* C5 witness: a call on which no rule triggered has returned the fallback
C5_Witness ==
    /\ pc = "returned"
    /\ ~C5_SomeRuleTriggers
    /\ recommendations = C5_Fallback

\* the positions of the keyword-gap sentences in the returned list
C7_Gaps == {i \in 1..Len(recommendations) : StartsWith(recommendations[i], REC_KEYWORDS_PREFIX)}

\* the positions, in the profile of tag, of the keywords that are not
\* case-insensitive substrings of the text
C7_Missing(tag) ==
    {k \in 1..Len(job_keywords[tag]) : ~IsSubstr(Lower(job_keywords[tag][k]), Lower(text))}

\* the sentence that lists the first min(5, number missing) missing keywords of
\* the profile, in profile order
C7_Expected(tag) ==
    LET missing == C7_Missing(tag)
        n       == IF Cardinality(missing) < 5 THEN Cardinality(missing) ELSE 5
    IN  REC_KEYWORDS_PREFIX \o Title(ReplaceChar(tag, "-", " ")) \o ": "
            \o Join(", ", [k \in 1..n |-> Title(job_keywords[tag][Nth(missing, k)])])

\* C7: with a known job position, the recommendations hold exactly one
\* keyword-gap sentence when some profile keyword is missing from the text, and
\* it lists the first min(5, number missing) missing keywords in profile order;
\* they hold none when every profile keyword is present.
C7_KeywordGap ==
    (pc = "returned" /\ job_position # None /\ job_position[1] \in DOMAIN job_keywords) =>
        IF C7_Missing(job_position[1]) = {}
        THEN C7_Gaps = {}
        ELSE /\ Cardinality(C7_Gaps) = 1
             /\ \A i \in C7_Gaps : recommendations[i] = C7_Expected(job_position[1])

\* C7 witness: a known position, three keywords missing and the profile's first
\* keyword present
C7_Witness ==
    /\ pc = "returned"
    /\ job_position = Some("data-scientist")
    /\ C7_Missing("data-scientist") = {11, 12, 16}
    /\ Cardinality(C7_Gaps) = 1

\* a second C7 case: more than five keywords are missing and five are listed
C7_WitnessTruncated ==
    /\ pc = "returned"
    /\ job_position = Some("data-scientist")
    /\ Cardinality(C7_Missing("data-scientist")) > 5
    /\ \E i \in C7_Gaps : recommendations[i] = C7_Expected("data-scientist")

\* the strings extract_skills collected before removing duplicates
C3_Found == FoundSkills(text, nlp, ner)

\* C3: whatever the entity-extraction collaborator does (absent, raising, or
\* returning any entities), extract_skills returns at most 20 entries and no two
\* of them are the same string.
C3_AtMost20NoDuplicates ==
    pc = "returned" =>
        /\ Len(skills) <= 20
        /\ \A i, j \in 1..Len(skills) : i # j => skills[i] # skills[j]

\* C3 witness: more than 20 distinct strings were found, one of them twice (in
\* the vocabulary and among the entities), and 20 were returned
C3_Witness ==
    /\ pc = "returned"
    /\ ner.kind = "ok"
    /\ Len(skills) = 20
    /\ LET found == C3_Found
       IN  /\ Cardinality({found[i] : i \in 1..Len(found)}) > 20
           /\ \E i, j \in 1..Len(found) : i # j /\ found[i] = found[j]

\* a skill trimmed of surrounding whitespace and case-folded
C9_Fold(skill) == Lower(Strip(skill))

\* C9 as stated: no two returned skills are equal after trimming and case folding.
C9_NoFoldedDuplicates ==
    pc = "returned" =>
        \A i, j \in 1..Len(skills) : i # j => C9_Fold(skills[i]) # C9_Fold(skills[j])

\* the number of distinct strings among the first i of found
C9_Rank(found, i) == Cardinality({found[j] : j \in 1..i})

\* C9 amended: duplicates are removed by exact string identity only.  No two
\* returned skills are the same string, and every found string is returned as it
\* was found, also when it differs from another one only in case or surrounding
\* whitespace, as long as it is among the first 20 distinct strings found.
C9_ExactDuplicatesOnly ==
    pc = "returned" =>
        /\ \A i, j \in 1..Len(skills) : i # j => skills[i] # skills[j]
        /\ LET found == C3_Found
           IN  \A i \in 1..Len(found) :
                   C9_Rank(found, i) <= MaxSkills
                       => \E k \in 1..Len(skills) : skills[k] = found[i]

\* C9 witness: two returned skills differ only in case or surrounding whitespace
C9_Witness ==
    /\ pc = "returned"
    /\ \E i, j \in 1..Len(skills) :
           i # j /\ skills[i] # skills[j] /\ C9_Fold(skills[i]) = C9_Fold(skills[j])

\* a line qualifies: its trimmed length exceeds 10 characters and it contains an
\* action verb as a case-insensitive substring
C4_Qualifies(line) ==
    /\ Len(Strip(line)) > 10
    /\ \E v \in 1..Len(action_verbs) : IsSubstr(action_verbs[v], Lower(Strip(line)))

\* entry is what is returned for line: the trimmed line, its first character
\* upper-cased
C4_ComesFrom(entry, line) ==
    LET trimmed == Strip(line)
    IN  /\ trimmed # ""
        /\ entry = UpperChar(CharAt(trimmed, 1)) \o SubSeq(trimmed, 2, Len(trimmed))

C4_WitnessTenCharacters ==
    /\ pc = "returned"
    /\ experiences = <<>>
    /\ text = "Led a team\n"

\* the trimmed, lower-cased line begins with an action verb
C10_BeginsWithVerb(line) ==
    \E v \in 1..Len(action_verbs) : StartsWith(Lower(Strip(line)), action_verbs[v])

\* C10 as stated: every returned entry comes from a line that, once trimmed,
\* begins with an action verb.
C10_EntriesBeginWithVerb ==
    pc = "returned" =>
        LET lines == SplitLines(text)
        IN  \A k \in 1..Len(experiences) :
                \E i \in 1..Len(lines) :
                    /\ C4_ComesFrom(experiences[k], lines[i])
                    /\ C10_BeginsWithVerb(lines[i])

\* the job position of the request is a tag outside the five known ones
C6_UnknownTag == job_position # None /\ job_position[1] \notin DOMAIN job_keywords

\* C6: a request with an unknown job-position tag is answered without error,
\* with no keyword-gap recommendation, and with the recommendations the same
\* text, skills and experiences get with no job position (skills, experiences,
\* score and feedback are computed without the job position at all).
C6_UnknownTagIgnored ==
    (pc = "done" /\ C6_UnknownTag /\ Strip(text) # "") =>
        /\ status = 200
        /\ \A i \in 1..Len(recommendations) :
               ~StartsWith(recommendations[i], REC_KEYWORDS_PREFIX)
        /\ recommendations = generate_recommendations(text, skills, experiences, None)

\* C6 witness: a request tagged "Data-Scientist", whose text lacks keywords of the
\* data-scientist profile, has been answered
C6_Witness ==
    /\ pc = "done"
    /\ status = 200
    /\ job_position = Some("Data-Scientist")
    /\ ~IsSubstr("deep learning", Lower(text))
    /\ recommendations # <<>>

\* the request carries a resume text that is empty or whitespace-only: the text
\* of the body, or the text read from the uploaded file
C8_EmptyResumeText ==
    \/ endpoint = "text" /\ Strip(text) = ""
    \/ /\ endpoint = "file"
       /\ upload # None
       /\ upload[1].content_type \in SupportedTypes
       /\ upload[1].content # None
       /\ Strip(upload[1].content[1]) = ""

\* C8 as stated: on both endpoints, a request whose resume text is empty or
\* whitespace-only is answered with HTTP 400.
C8_EmptyTextIsClientError ==
    (pc = "done" /\ C8_EmptyResumeText) => status = 400


(***************************************************************************)
(* Unit specification: preprocess_text without the spaCy collaborator,     *)
(* applied to a text and then to its own result                            *)
(***************************************************************************)

MaxRun == 4

PreEdges == {"", " ", "\n\t "}
PreGaps  == {Repeat(c, n) : c \in Whitespace, n \in 0..MaxRun} \cup {" \t", "\t \n "}
PreWords == {"Python", "SQL"}

PreprocessTexts ==
    {l \o "Senior" \o g \o w \o r : l \in PreEdges, g \in PreGaps, w \in PreWords, r \in PreEdges}
        \cup {"", " \n"}

InitPreprocess ==
    /\ pc = "preprocess_text"
    /\ text \in PreprocessTexts
    /\ nlp = None
    /\ ner = [kind |-> "absent"]
    /\ endpoint = ""
    /\ upload = None
    /\ job_position = None
    /\ skills = <<>>
    /\ experiences = <<>>
    /\ score = 0
    /\ feedback = ""
    /\ recommendations = <<>>
    /\ status = 0
    /\ analyzer = Analyzer
    /\ calls = <<>>
    /\ processed = <<>>

\* preprocess_text(text)
CallPreprocessText ==
    /\ pc = "preprocess_text"
    /\ processed' = << preprocess_text(text, nlp) >>
    /\ pc' = "returned"
    /\ UNCHANGED << endpoint, upload, text, job_position, nlp, ner, skills, experiences,
                    score, feedback, recommendations, status, analyzer, calls >>

\* preprocess_text(the string the first call returned)
CallPreprocessTextAgain ==
    /\ pc = "returned"
    /\ processed' = Append(processed, preprocess_text(processed[1], nlp))
    /\ pc' = "returned_again"
    /\ UNCHANGED << endpoint, upload, text, job_position, nlp, ner, skills, experiences,
                    score, feedback, recommendations, status, analyzer, calls >>

NextPreprocess ==
    \/ CallPreprocessText
    \/ CallPreprocessTextAgain

SpecPreprocess == InitPreprocess /\ [][NextPreprocess]_vars

(***************************************************************************)
(* C12: the fallback preprocessing is idempotent                           *)
(***************************************************************************)

\* C12: without the spaCy collaborator, preprocess_text applied to its own
\* result returns that result unchanged:
\* preprocess_text(preprocess_text(t)) = preprocess_text(t)
C12_FallbackIdempotent ==
    (pc = "returned_again" /\ nlp = None) => processed[2] = processed[1]

\* a text in mixed case with leading whitespace and a run of four whitespace
\* characters has gone through both applications
C12_Witness ==
    /\ pc = "returned_again"
    /\ nlp = None
    /\ StartsWith(text, "\n\t ")
    /\ IsSubstr("Senior\t\t\t\tPython", text)
    /\ processed[1] = "senior python"
    /\ processed[1] # text

(***************************************************************************)
(* C13, C14: the action-verb and the quantification recommendations        *)
(***************************************************************************)

\* the number of experience lines that contain at least one of the markers
C13_LinesWith(markers) ==
    Cardinality({i \in 1..Len(experiences) : ContainsAny(markers, Lower(experiences[i]))})

C13_Produced(tip) == \E k \in 1..Len(recommendations) : recommendations[k] = tip

\* C13: the stronger-action-verbs recommendation is produced exactly when more
\* experience lines contain a weak verb than contain a strong verb, a line
\* counting once per class however many verbs of the class it contains.
C13_VerbTipIffMoreWeakLines ==
    pc = "returned" =>
        (C13_Produced(REC_VERBS) <=>
            C13_LinesWith(weak_action_verbs) > C13_LinesWith(strong_action_verbs))

\* C14: the quantifiable-results recommendation is produced exactly when fewer
\* than half of the experience lines contain a metric marker, a line counting
\* once however many markers it contains; without experience lines it is not
\* produced.
C14_MetricsTipIffUnderHalfLines ==
    pc = "returned" =>
        (C13_Produced(REC_METRICS) <=>
            2 * C13_LinesWith(metrics_keywords) < Len(experiences))

(***************************************************************************)
(* Unit specification: generate_feedback applied to every combination of a *)
(* text, a skills list, an experiences list and a score.  A text is n - 1  *)
(* filler words and one last word that may hold "summary", "objective",    *)
(* "@" or "email".                                                         *)
(***************************************************************************)

FbWordCounts == {1, 149, 150, 1000, 1001}

FbLastWords == {"w", "Summary", "OBJECTIVE", "me@x.org", "Email", "summary@x"}

FbTexts == {""} \cup {Repeat("w ", n - 1) \o w : n \in FbWordCounts, w \in FbLastWords}

FbSkillCounts      == {4, 5}
FbExperienceCounts == {2, 3}
FbScores           == {0, 39, 40, 59, 60, 79, 80, 100}

FbSkillLists      == {[i \in 1..n |-> Title(skill_keywords[i])] : n \in FbSkillCounts}
FbExperienceLists == {[i \in 1..n |-> RecLinePlain] : n \in FbExperienceCounts}

InitFeedback ==
    /\ pc = "generate_feedback"
    /\ text \in FbTexts
    /\ skills \in FbSkillLists
    /\ experiences \in FbExperienceLists
    /\ score \in FbScores
    /\ endpoint = ""
    /\ upload = None
    /\ job_position = None
    /\ nlp = None
    /\ ner = [kind |-> "absent"]
    /\ feedback = ""
    /\ recommendations = <<>>
    /\ status = 0
    /\ analyzer = Analyzer
    /\ calls = <<>>
    /\ processed = <<>>

CallGenerateFeedback ==
    /\ pc = "generate_feedback"
    /\ feedback' = generate_feedback(text, skills, experiences, score)
    /\ pc' = "returned"
    /\ UNCHANGED << endpoint, upload, text, job_position, nlp, ner, skills, experiences,
                    score, recommendations, status, analyzer, calls, processed >>

NextFeedback == CallGenerateFeedback

SpecFeedback == InitFeedback /\ [][NextFeedback]_vars

(***************************************************************************)
(* C15: the structure of the feedback string                               *)
(***************************************************************************)

C15_Headline ==
    IF score >= 80 THEN FB_EXCELLENT
    ELSE IF score >= 60 THEN FB_GOOD
    ELSE IF score >= 40 THEN FB_FAIR
    ELSE FB_NEEDS

\* the optional sentences in priority order, each with its trigger
C15_Optional ==
    LET lowered == Lower(text)
        words   == WordCount(text)
    IN  << [trigger |-> words < 150,        sentence |-> FB_ADD],
           [trigger |-> words > 1000,       sentence |-> FB_SHORTEN],
           [trigger |-> Len(skills) < 5,    sentence |-> FB_SKILLS],
           [trigger |-> Len(experiences) < 3, sentence |-> FB_EXAMPLES],
           [trigger |-> ~IsSubstr("summary", lowered) /\ ~IsSubstr("objective", lowered),
            sentence |-> FB_SUMMARY],
           [trigger |-> ~IsSubstr("@", text) /\ ~IsSubstr("email", lowered),
            sentence |-> FB_CONTACT] >>

C15_Triggered(o) == o.trigger

\* C15: the feedback is the one headline of the score's band followed by
\* exactly the optional sentences whose trigger holds, in priority order,
\* joined by single spaces; the add-more-content and the shorten sentence
\* never appear together.
C15_HeadlineThenTriggeredSentences ==
    pc = "returned" =>
        LET chosen == SelectSeq(C15_Optional, C15_Triggered)
        IN  /\ feedback = Join(" ", << C15_Headline >>
                                      \o [k \in 1..Len(chosen) |-> chosen[k].sentence])
            /\ ~(IsSubstr(FB_ADD, feedback) /\ IsSubstr(FB_SHORTEN, feedback))

\* 1001 words with an "@", four skills, three experiences and score 80: the
\* excellent headline, then the shorten, skills and summary sentences
C15_Witness ==
    /\ pc = "returned"
    /\ WordCount(text) = 1001
    /\ IsSubstr("@", text)
    /\ Len(skills) = 4
    /\ Len(experiences) = 3
    /\ score = 80
    /\ feedback = FB_EXCELLENT \o " " \o FB_SHORTEN \o " " \o FB_SKILLS \o " " \o FB_SUMMARY

(***************************************************************************)
(* Calls of the analyzer's methods, statement block by statement block     *)
(*                                                                         *)
(* calls[i] is the frame of call i: its arguments, the collaborators'      *)
(* outcomes as this call sees them, its local variables and where it       *)
(* stands.  analyzer is the one object every frame's self refers to.  A    *)
(* block is an operator from (self, frame) to what it leaves of both.      *)
(***************************************************************************)

\* ResumeAnalyzer.analyze as a function of its arguments and of what the
\* collaborators return to it
analyze(t, jp, n, e) ==
    LET found == extract_skills(t, n, e)
        lines == extract_experiences(t)
        total == calculate_score(t, found, lines)
    IN  [skills          |-> found,
         experiences     |-> lines,
         score           |-> total,
         feedback        |-> generate_feedback(t, found, lines, total),
         recommendations |-> generate_recommendations(t, found, lines, jp)]

\* the frame of a call of method ("analyze" or "extract_skills") on entry
Frame(method, t, jp, n, e) ==
    [method          |-> method,
     pc              |-> "scan",
     text            |-> t,
     job_position    |-> jp,
     nlp             |-> n,
     ner             |-> e,
     found_skills    |-> <<>>,
     ner_calls       |-> 0,
     skills          |-> <<>>,
     experiences     |-> <<>>,
     score           |-> 0,
     feedback        |-> "",
     recommendations |-> <<>>,
     result          |-> None]

After(self, frame) == [self |-> self, frame |-> frame]

\* DoKeywordScan taking every term it finds out of self.skill_keywords
DoKeywordScan_Consuming(self, f) ==
    LET processed_text == ProcessedText(f.text, f.nlp)
        rest == {i \in 1..Len(self.skill_keywords) :
                    ~IsSubstr(Lower(self.skill_keywords[i]), processed_text)}
    IN  After([self EXCEPT !.skill_keywords = AtIndices(self.skill_keywords, rest)],
              [f EXCEPT !.found_skills = KeywordMatchesOf(self, processed_text),
                        !.pc = "ner"])

\* extract_skills, lines 131-137
DoKeywordScan(self, f) ==
    After(self, [f EXCEPT !.found_skills = KeywordMatchesOf(self, ProcessedText(f.text, f.nlp)),
                          !.pc = "ner"])

\* DoNerCall calling the collaborator a second time when the first call raises
DoNerCall_Retrying(self, f) ==
    After(self,
          IF f.ner.kind = "absent" THEN [f EXCEPT !.pc = "dedup"]
          ELSE IF f.ner.kind = "raises"
               THEN [f EXCEPT !.ner_calls = @ + 2, !.pc = "dedup"]
          ELSE [f EXCEPT !.ner_calls = @ + 1,
                         !.found_skills = @ \o OrgEntities(f.ner),
                         !.pc = "dedup"])

\* extract_skills, lines 140-148: no call when self.ner_pipeline is None; the
\* except clause prints and goes on when the call raises
DoNerCall(self, f) ==
    After(self,
          IF f.ner.kind = "absent" THEN [f EXCEPT !.pc = "dedup"]
          ELSE IF f.ner.kind = "raises"
               THEN [f EXCEPT !.ner_calls = @ + 1, !.pc = "dedup"]
          ELSE [f EXCEPT !.ner_calls = @ + 1,
                         !.found_skills = @ \o OrgEntities(f.ner),
                         !.pc = "dedup"])

\* extract_skills, lines 151-158, and the return to analyze (line 371) or to
\* the caller of extract_skills
DoDeduplicate(self, f) ==
    LET unique_skills == Take(RemoveDuplicates(f.found_skills), MaxSkills)
    IN  After(self,
              IF f.method = "extract_skills"
              THEN [f EXCEPT !.skills = unique_skills,
                             !.result = Return(unique_skills),
                             !.pc = "returned"]
              ELSE [f EXCEPT !.skills = unique_skills, !.pc = "extract_experiences"])

\* analyze, line 372
DoExtractExperiences(self, f) ==
    After(self, [f EXCEPT !.experiences = extract_experiences(f.text),
                          !.pc = "calculate_score"])

\* analyze, line 375
DoCalculateScore(self, f) ==
    After(self, [f EXCEPT !.score = calculate_scoreOf(self, f.text, f.skills, f.experiences),
                          !.pc = "generate_feedback"])

\* analyze, line 378
DoGenerateFeedback(self, f) ==
    After(self, [f EXCEPT !.feedback = generate_feedback(f.text, f.skills, f.experiences, f.score),
                          !.pc = "generate_recommendations"])

\* analyze, line 379
DoGenerateRecommendations(self, f) ==
    After(self, [f EXCEPT !.recommendations =
                              generate_recommendationsOf(self, f.text, f.skills,
                                                         f.experiences, f.job_position),
                          !.pc = "return"])

\* analyze, lines 382-388
DoReturn(self, f) ==
    After(self, [f EXCEPT !.result = Return([skills          |-> f.skills,
                                              experiences     |-> f.experiences,
                                              score           |-> f.score,
                                              feedback        |-> f.feedback,
                                              recommendations |-> f.recommendations]),
                          !.pc = "returned"])

\* call i runs one block
Run(i, after) ==
    /\ analyzer' = after.self
    /\ calls' = [calls EXCEPT ![i] = after.frame]
    /\ UNCHANGED << pc, endpoint, upload, text, job_position, nlp, ner, skills, experiences,
                    score, feedback, recommendations, status, processed >>

KeywordScan(i)  == calls[i].pc = "scan" /\ Run(i, DoKeywordScan(analyzer, calls[i]))
NerCall(i)      == calls[i].pc = "ner" /\ Run(i, DoNerCall(analyzer, calls[i]))
Deduplicate(i)  == calls[i].pc = "dedup" /\ Run(i, DoDeduplicate(analyzer, calls[i]))
Experiences(i)  == calls[i].pc = "extract_experiences"
                       /\ Run(i, DoExtractExperiences(analyzer, calls[i]))
Score(i)        == calls[i].pc = "calculate_score"
                       /\ Run(i, DoCalculateScore(analyzer, calls[i]))
Feedback(i)     == calls[i].pc = "generate_feedback"
                       /\ Run(i, DoGenerateFeedback(analyzer, calls[i]))
Recommend(i)    == calls[i].pc = "generate_recommendations"
                       /\ Run(i, DoGenerateRecommendations(analyzer, calls[i]))
ReturnResult(i) == calls[i].pc = "return" /\ Run(i, DoReturn(analyzer, calls[i]))

\* the variables a specification of calls does not use
NoRequest ==
    /\ pc = "calls"
    /\ endpoint = ""
    /\ upload = None
    /\ text = ""
    /\ job_position = None
    /\ nlp = None
    /\ ner = [kind |-> "absent"]
    /\ skills = <<>>
    /\ experiences = <<>>
    /\ score = 0
    /\ feedback = ""
    /\ recommendations = <<>>
    /\ status = 0
    /\ processed = <<>>

(***************************************************************************)
(* One call of extract_skills, block by block                              *)
(***************************************************************************)

InitSkillSteps ==
    /\ NoRequest
    /\ analyzer = Analyzer
    /\ \E t \in SkillTexts :
       \E n \in NlpChoices(t), e \in ServiceNerChoices :
           calls = << Frame("extract_skills", t, None, n, e) >>

NextSkillSteps ==
    \/ \E i \in DOMAIN calls : KeywordScan(i)
    \/ \E i \in DOMAIN calls : NerCall(i)
    \/ \E i \in DOMAIN calls : Deduplicate(i)

SpecSkillSteps == InitSkillSteps /\ [][NextSkillSteps]_vars

(***************************************************************************)
(* C16: extract_skills when the NER collaborator raises                    *)
(***************************************************************************)

C16_RaisedAndReturned(f) ==
    f.method = "extract_skills" /\ f.pc = "returned" /\ f.ner.kind = "raises"

\* C16: when the entity-extraction collaborator raises, extract_skills raises
\* nothing, has called the collaborator once and no more, and returns what it
\* returns with the collaborator absent: the title-cased vocabulary matches in
\* vocabulary order, cut to 20.
C16_NerFailureIsSwallowed ==
    \A i \in DOMAIN calls :
        LET f == calls[i]
        IN  C16_RaisedAndReturned(f) =>
                LET matches == KeywordMatches(ProcessedText(f.text, f.nlp))
                IN  /\ f.result # None
                    /\ ~f.result.raised
                    /\ f.ner_calls = 1
                    /\ f.result.value = extract_skills(f.text, f.nlp, [kind |-> "absent"])
                    /\ f.result.value = Take(matches, 20)

\* the collaborator raised on a text with more than 20 vocabulary terms, and
\* the call returned the first 20
C16_Witness ==
    \E i \in DOMAIN calls :
        /\ C16_RaisedAndReturned(calls[i])
        /\ calls[i].ner_calls = 1
        /\ Len(calls[i].found_skills) > 20
        /\ Len(calls[i].result.value) = 20
        /\ calls[i].result.value[1] = "Python"

(***************************************************************************)
(* Concurrent calls of analyze on the one analyzer of the routes module    *)
(* (resume_analysis.py line 19), their blocks interleaved in every order   *)
(***************************************************************************)

NumCalls == 2

ConcurrentTextA == "Python dev\nLed a team of 5"
ConcurrentTextB == "Summary: a@b.c\nHelped with SQL"

\* what one call is given: its arguments and the collaborators' outcomes
ConcurrentInputs == {
    [text |-> ConcurrentTextA, job_position |-> Some("data-scientist"), nlp |-> None,
     ner |-> [kind |-> "ok", entities |-> << [word |-> "python", entity_group |-> "ORG"],
                                             [word |-> "Alice", entity_group |-> "PER"] >>]],
    [text |-> ConcurrentTextA, job_position |-> None, nlp |-> Some(NlpDoc(ConcurrentTextA)),
     ner |-> [kind |-> "raises"]],
    [text |-> ConcurrentTextB, job_position |-> Some("ui-ux-designer"), nlp |-> None,
     ner |-> [kind |-> "absent"]] }

InitConcurrent ==
    /\ NoRequest
    /\ analyzer = Analyzer
    /\ \E inputs \in [1..NumCalls -> ConcurrentInputs] :
           calls = [i \in 1..NumCalls |->
                       Frame("analyze", inputs[i].text, inputs[i].job_position,
                             inputs[i].nlp, inputs[i].ner)]

NextConcurrent ==
    \/ \E i \in DOMAIN calls : KeywordScan(i)
    \/ \E i \in DOMAIN calls : NerCall(i)
    \/ \E i \in DOMAIN calls : Deduplicate(i)
    \/ \E i \in DOMAIN calls : Experiences(i)
    \/ \E i \in DOMAIN calls : Score(i)
    \/ \E i \in DOMAIN calls : Feedback(i)
    \/ \E i \in DOMAIN calls : Recommend(i)
    \/ \E i \in DOMAIN calls : ReturnResult(i)

SpecConcurrent == InitConcurrent /\ [][NextConcurrent]_vars

(***************************************************************************)
(* C11: interleaved calls of analyze do not interfere                      *)
(***************************************************************************)

C11_Returned(f) == f.method = "analyze" /\ f.pc = "returned"

\* C11: however the blocks of the calls interleave, a call of analyze that
\* has returned has returned what analyze returns for its text, job position
\* and collaborator outcomes when it runs alone, and the analyzer's
\* skill_keywords and job_keywords are as __init__ left them.
C11_CallsDoNotInterfere ==
    \A i \in DOMAIN calls :
        LET f == calls[i]
        IN  C11_Returned(f) =>
                /\ f.result = Return(analyze(f.text, f.job_position, f.nlp, f.ner))
                /\ analyzer.skill_keywords = skill_keywords
                /\ analyzer.job_keywords = job_keywords

\* a call has returned its skills and recommendations while another call on
\* the same text stands between its vocabulary scan and its deduplication
C11_Witness ==
    \E i, j \in DOMAIN calls :
        /\ i # j
        /\ C11_Returned(calls[j])
        /\ calls[j].result.value.skills # <<>>
        /\ calls[j].result.value.recommendations # <<>>
        /\ calls[i].text = calls[j].text
        /\ calls[i].pc = "dedup"
        /\ calls[i].found_skills # <<>>

====
